---- MODULE Spec2Model ----
(***************************************************************************)
(* Model of the mango-bets on-chain program (program/src/lib.rs): the      *)
(* instruction router process_instruction and its four handlers            *)
(* initialize_bet, place_wager, settle_bet_outcome and claim_winnings,     *)
(* over a small set of storage records (accounts).  Record buffers are     *)
(* byte sequences in the program's Borsh layout; u64 counters held in a    *)
(* buffer are 8 little-endian bytes and are added byte by byte.            *)
(***************************************************************************)
EXTENDS Integers, Sequences, FiniteSets, TLC

\* ------------------------------------------------------------------ layout

\* Widths of the Borsh encodings of the field types of BetState and
\* BettorDetails.
PubkeyLen == 32
U64Len == 8
U32Len == 4
BoolLen == 1

\* The lower limits initialize_bet puts on the name and the description.
MinNameLen == 5
MinDescLen == 10

\* Rent sysvar (Rent::get()): the runtime's default parameters.
ACCOUNT_STORAGE_OVERHEAD == 128
LamportsPerByteYear == 3480
ExemptionThreshold == 2

\* Lamports in the second funding record.
Stake == 5

\* How many PlaceWager requests may succeed in one behaviour.
MaxWagers == 2

\* Encoded length of a BetState with empty name and description.
BetStateFixedLen == PubkeyLen + U32Len + U32Len + 3 * U64Len + 2 * BoolLen

\* Encoded length of a BettorDetails.
BettorLen == PubkeyLen + U64Len + PubkeyLen + 2 * BoolLen

Zeros(n) == [i \in 1..n |-> 0]

Pow256 == <<1, 256, 65536, 16777216>>

\* u64::to_le_bytes of a value below 2^31 (every balance of the model).
U64Bytes(n) == [i \in 1..U64Len |-> IF i <= 4 THEN (n \div Pow256[i]) % 256 ELSE 0]

\* u32::to_le_bytes of a string length.
U32Bytes(n) == [i \in 1..U32Len |-> (n \div Pow256[i]) % 256]

\* u64 addition on little-endian bytes; the carry out of the top byte is
\* dropped (wrapping, as the release build does).
AddU64(a, b) ==
    LET c[i \in 0..U64Len] == IF i = 0 THEN 0 ELSE (a[i] + b[i] + c[i - 1]) \div 256
    IN  [i \in 1..U64Len |-> (a[i] + b[i] + c[i - 1]) % 256]

BoolByte(b) == IF b THEN 1 ELSE 0

\* BetOutcome::new()
NewOutcome == [party1_result |-> FALSE, party2_result |-> FALSE]

\* BorshSerialize for BetState: the fields in declaration order, a string as
\* its u32 length followed by its bytes.
EncBetState(b) ==
    b.creator \o U32Bytes(Len(b.name)) \o b.name
      \o U32Bytes(Len(b.description)) \o b.description
      \o b.total_pool \o b.party1_pool \o b.party2_pool
      \o <<BoolByte(b.outcome.party1_result), BoolByte(b.outcome.party2_result)>>

\* BorshSerialize for BettorDetails.
EncBettor(d) ==
    d.bet_placer_address \o d.value \o d.assoc_bet_address
      \o <<BoolByte(d.party1), BoolByte(d.party2)>>

\* The u32 string length at 1-based position pos of buffer d, or -1 when the
\* prefix or the declared number of bytes is not there (Borsh fails with
\* "Unexpected length of input").  A length with a non-zero upper byte is
\* over 255 and so over every buffer of the model.
StrLenAt(d, pos) ==
    IF pos + U32Len - 1 > Len(d) THEN -1
    ELSE IF d[pos + 1] # 0 \/ d[pos + 2] # 0 \/ d[pos + 3] # 0 THEN -1
    ELSE IF pos + U32Len - 1 + d[pos] > Len(d) THEN -1
    ELSE d[pos]

\* String::from_utf8 on the bytes of the model, which are ASCII or are not
\* UTF-8 at all: a byte of 128 or more never starts a valid sequence here.
ValidUtf8(s) == \A i \in 1..Len(s) : s[i] < 128

ValidBool(x) == x \in {0, 1}

NoBetState ==
    [creator |-> Zeros(PubkeyLen), name |-> <<>>, description |-> <<>>,
     total_pool |-> Zeros(U64Len), party1_pool |-> Zeros(U64Len),
     party2_pool |-> Zeros(U64Len), outcome |-> NewOutcome]

\* BetState::try_from_slice: decode the fields in order and fail unless every
\* byte of the slice is consumed.
DecBetState(d) ==
    LET np == PubkeyLen + 1
        n  == StrLenAt(d, np)
        dp == np + U32Len + n
        m  == IF n < 0 THEN -1 ELSE StrLenAt(d, dp)
        pp == dp + U32Len + m
        ok == /\ n >= 0
              /\ m >= 0
              /\ Len(d) = pp + 3 * U64Len + 2 * BoolLen - 1
              /\ ValidUtf8(SubSeq(d, np + U32Len, dp - 1))
              /\ ValidUtf8(SubSeq(d, dp + U32Len, pp - 1))
              /\ ValidBool(d[Len(d) - 1])
              /\ ValidBool(d[Len(d)])
    IN  IF ~ok THEN [ok |-> FALSE, v |-> NoBetState]
        ELSE [ok |-> TRUE,
              v |-> [creator |-> SubSeq(d, 1, PubkeyLen),
                     name |-> SubSeq(d, np + U32Len, dp - 1),
                     description |-> SubSeq(d, dp + U32Len, pp - 1),
                     total_pool |-> SubSeq(d, pp, pp + U64Len - 1),
                     party1_pool |-> SubSeq(d, pp + U64Len, pp + 2 * U64Len - 1),
                     party2_pool |-> SubSeq(d, pp + 2 * U64Len, pp + 3 * U64Len - 1),
                     outcome |-> [party1_result |-> d[Len(d) - 1] = 1,
                                  party2_result |-> d[Len(d)] = 1]]]

NoBettor ==
    [bet_placer_address |-> Zeros(PubkeyLen), value |-> Zeros(U64Len),
     assoc_bet_address |-> Zeros(PubkeyLen), party1 |-> FALSE, party2 |-> FALSE]

\* BettorDetails::try_from_slice.
DecBettor(d) ==
    IF Len(d) # BettorLen \/ ~ValidBool(d[BettorLen - 1]) \/ ~ValidBool(d[BettorLen])
    THEN [ok |-> FALSE, v |-> NoBettor]
    ELSE [ok |-> TRUE,
          v |-> [bet_placer_address |-> SubSeq(d, 1, PubkeyLen),
                 value |-> SubSeq(d, PubkeyLen + 1, PubkeyLen + U64Len),
                 assoc_bet_address |->
                     SubSeq(d, PubkeyLen + U64Len + 1, 2 * PubkeyLen + U64Len),
                 party1 |-> d[BettorLen - 1] = 1,
                 party2 |-> d[BettorLen] = 1]]

\* x.serialize(&mut &mut data.borrow_mut()[..]): every field is written with
\* write_all into the slice; what fits is copied, and the first field that
\* does not fit whole ends the write with an error after its leading bytes
\* were copied.
WriteInto(buf, bytes) ==
    [ok |-> Len(bytes) <= Len(buf),
     data |-> [i \in 1..Len(buf) |-> IF i <= Len(bytes) THEN bytes[i] ELSE buf[i]]]

\* ----------------------------------------------------------------- records

\* The storage records of the model: a market record sized for the shortest
\* valid market, a wager record sized for one BettorDetails, two empty
\* funding records, and a participant's own record, which the program does
\* not own.
Records == {"M", "X", "F1", "F2", "U"}

\* program_id
ProgramId == "program"

\* AccountInfo::owner
Owner(r) == IF r = "U" THEN "system" ELSE ProgramId

\* AccountInfo::key: 32 equal bytes, a different byte for each record.
Key(r) ==
    LET b == CASE r = "M" -> 1 [] r = "X" -> 2 [] r = "F1" -> 3
               [] r = "F2" -> 4 [] OTHER -> 5
    IN  [i \in 1..PubkeyLen |-> b]

\* AccountInfo::data_len: fixed when the record is provisioned.
DataLen(r) ==
    CASE r = "M" -> BetStateFixedLen + MinNameLen + MinDescLen
      [] r = "X" -> BettorLen
      [] OTHER -> 0

\* Rent::minimum_balance
minimum_balance(len) ==
    (ACCOUNT_STORAGE_OVERHEAD + len) * LamportsPerByteYear * ExemptionThreshold

\* The outcome of a handler: its return value and the records as it leaves
\* them.
Out(tag, st) == [result |-> tag, accounts |-> st]

\* initial_bet_state with the payload's pools and outcome kept.
initial_bet_state_keeps_payload(payload_state) == payload_state

\* initialize_bet, the initial bet state: the decoded payload with its pools
\* cleared and a fresh outcome.
initial_bet_state(payload_state) ==
    [payload_state EXCEPT !.total_pool = Zeros(U64Len),
                          !.party1_pool = Zeros(U64Len),
                          !.party2_pool = Zeros(U64Len),
                          !.outcome = NewOutcome]

\* initialize_bet without its check of the name's length.
initialize_bet_any_name(st, accs, signers, data) ==
    IF Len(accs) < 2 THEN Out("NotEnoughAccountKeys", st) ELSE
    LET writing_account_pda == accs[1]
        creator_account == accs[2]
        dec == DecBetState(data)
        bet_state == initial_bet_state(dec.v)
        wr == WriteInto(st[writing_account_pda].data, EncBetState(bet_state))
        st1 == [st EXCEPT ![writing_account_pda].data = wr.data]
    IN  IF Owner(writing_account_pda) # ProgramId THEN Out("IncorrectProgramId", st)
        ELSE IF creator_account \notin signers THEN Out("IncorrectProgramId", st)
        ELSE IF ~dec.ok THEN Out("Panic", st)
        ELSE IF dec.v.creator # Key(creator_account)
             THEN Out("InvalidInstructionData", st)
        ELSE IF Len(dec.v.description) < MinDescLen THEN Out("InvalidAccountData", st)
        ELSE IF st[writing_account_pda].lamports
                  < minimum_balance(Len(st[writing_account_pda].data))
             THEN Out("InsufficientFunds", st)
        ELSE IF ~wr.ok THEN Out("BorshIoError", st1)
        ELSE Out("Ok", st1)

\* initialize_bet
initialize_bet(st, accs, signers, data) ==
    IF Len(accs) < 2 THEN Out("NotEnoughAccountKeys", st) ELSE
    LET writing_account_pda == accs[1]
        creator_account == accs[2]
        dec == DecBetState(data)
        bet_state == initial_bet_state(dec.v)
        wr == WriteInto(st[writing_account_pda].data, EncBetState(bet_state))
        st1 == [st EXCEPT ![writing_account_pda].data = wr.data]
    IN  IF Owner(writing_account_pda) # ProgramId THEN Out("IncorrectProgramId", st)
        ELSE IF creator_account \notin signers THEN Out("IncorrectProgramId", st)
        \* expect() on a payload that does not decode aborts the program
        ELSE IF ~dec.ok THEN Out("Panic", st)
        ELSE IF dec.v.creator # Key(creator_account)
             THEN Out("InvalidInstructionData", st)
        ELSE IF Len(dec.v.name) < MinNameLen THEN Out("InvalidInstructionData", st)
        ELSE IF Len(dec.v.description) < MinDescLen THEN Out("InvalidAccountData", st)
        ELSE IF st[writing_account_pda].lamports
                  < minimum_balance(Len(st[writing_account_pda].data))
             THEN Out("InsufficientFunds", st)
        ELSE IF ~wr.ok THEN Out("BorshIoError", st1)
        ELSE Out("Ok", st1)

\* place_wager, the pool bookkeeping: the amount goes to the total pool and
\* to the pool of each side the wager flags.
add_to_pools(bet_state, bettor_details, amount) ==
    [bet_state EXCEPT
       !.total_pool = AddU64(@, amount),
       !.party1_pool = IF bettor_details.party1 THEN AddU64(@, amount) ELSE @,
       !.party2_pool = IF bettor_details.party2 THEN AddU64(@, amount) ELSE @]

\* move_lamports with the funding record left as it was.
move_lamports_keeps_funding(st, writing_account_pda, wager_amount_pda) ==
    [st EXCEPT ![writing_account_pda].lamports = @ + st[wager_amount_pda].lamports]

\* place_wager, the transfer: the funding record's lamports are added to the
\* market record's and the funding record is emptied.
move_lamports(st, writing_account_pda, wager_amount_pda) ==
    [st EXCEPT ![writing_account_pda].lamports = @ + st[wager_amount_pda].lamports,
               ![wager_amount_pda].lamports = 0]

\* place_wager
place_wager(st, accs, signers, data) ==
    IF Len(accs) < 4 THEN Out("NotEnoughAccountKeys", st) ELSE
    LET writing_account_pda == accs[1]
        wager_amount_pda == accs[2]
        bettor_account_pda == accs[3]
        creator_account == accs[4]
        dec == DecBettor(data)
        decm == DecBetState(st[writing_account_pda].data)
        bet_amount_in_lamports == st[wager_amount_pda].lamports
        bettor_details == [dec.v EXCEPT !.value = U64Bytes(bet_amount_in_lamports)]
        wr1 == WriteInto(st[bettor_account_pda].data, EncBettor(bettor_details))
        st1 == [st EXCEPT ![bettor_account_pda].data = wr1.data]
        bet_state == add_to_pools(decm.v, bettor_details, U64Bytes(bet_amount_in_lamports))
        st2 == move_lamports(st1, writing_account_pda, wager_amount_pda)
        wr2 == WriteInto(st2[writing_account_pda].data, EncBetState(bet_state))
        st3 == [st2 EXCEPT ![writing_account_pda].data = wr2.data]
    IN  IF Owner(writing_account_pda) # ProgramId THEN Out("IncorrectProgramId", st)
        ELSE IF creator_account \notin signers THEN Out("IncorrectProgramId", st)
        \* expect() on a payload or a market buffer that does not decode aborts
        ELSE IF ~dec.ok THEN Out("Panic", st)
        ELSE IF ~decm.ok THEN Out("Panic", st)
        ELSE IF st[bettor_account_pda].lamports
                  < minimum_balance(Len(st[bettor_account_pda].data))
             THEN Out("InsufficientFunds", st)
        ELSE IF ~wr1.ok THEN Out("BorshIoError", st1)
        \* the Ref of wager_amount_pda.lamports.borrow() lives to the end of
        \* the statement, so try_borrow_mut_lamports on the same record fails
        ELSE IF writing_account_pda = wager_amount_pda
             THEN Out("AccountBorrowFailed", st1)
        ELSE IF ~wr2.ok THEN Out("BorshIoError", st3)
        ELSE Out("Ok", st3)

\* settle_bet_outcome
settle_bet_outcome(st, accs, signers, data) == Out("Ok", st)

\* claim_winnings
claim_winnings(st, accs, signers, data) == Out("Ok", st)

\* process_instruction with the last handler as the default branch.
process_instruction_default_handler(st, accs, signers, instruction_data) ==
    IF Len(instruction_data) = 0 THEN Out("InvalidInstructionData", st)
    ELSE LET rest == SubSeq(instruction_data, 2, Len(instruction_data))
         IN  IF instruction_data[1] = 0 THEN initialize_bet(st, accs, signers, rest)
             ELSE IF instruction_data[1] = 1 THEN place_wager(st, accs, signers, rest)
             ELSE IF instruction_data[1] = 2
                  THEN settle_bet_outcome(st, accs, signers, rest)
             ELSE claim_winnings(st, accs, signers, rest)

\* process_instruction
process_instruction(st, accs, signers, instruction_data) ==
    IF Len(instruction_data) = 0 THEN Out("InvalidInstructionData", st)
    ELSE LET rest == SubSeq(instruction_data, 2, Len(instruction_data))
         IN  IF instruction_data[1] = 0 THEN initialize_bet(st, accs, signers, rest)
             ELSE IF instruction_data[1] = 1 THEN place_wager(st, accs, signers, rest)
             ELSE IF instruction_data[1] = 2
                  THEN settle_bet_outcome(st, accs, signers, rest)
             ELSE IF instruction_data[1] = 3 THEN claim_winnings(st, accs, signers, rest)
             ELSE Out("InvalidInstructionData", st)

\* ------------------------------------------------------------------- state

VARIABLES
    accounts,   \* each record's balance and data buffer, as the host holds them
    request,    \* the last request: its records, its signers, its bytes
    result,     \* what process_instruction returned for it
    dirty,      \* the records that handler call left changed when it returned
    placed      \* how many PlaceWager requests have succeeded

vars == <<accounts, request, result, dirty, placed>>

\* Records as the provisioning facility hands them over: zeroed buffers of
\* their fixed size, the market and wager records rent exempt, the first
\* funding record holding as many lamports as a BettorDetails is longer than
\* an empty BetState, the second holding Stake.
Init ==
    /\ accounts =
         [r \in Records |->
            [lamports |-> CASE r = "F1" -> BettorLen - BetStateFixedLen
                            [] r = "F2" -> Stake
                            [] OTHER -> minimum_balance(DataLen(r)),
             data |-> Zeros(DataLen(r))]]
    /\ request = [accs |-> <<>>, signers |-> {}, instruction_data |-> <<>>]
    /\ result = "None"
    /\ dirty = {}
    /\ placed = 0

\* One request handled by the entrypoint.  The host keeps the handler's
\* writes when it returns Ok and discards them when it returns an error or
\* aborts; dirty records what the handler itself had written by then.
Invoke(accs, signers, instruction_data) ==
    \E out \in {process_instruction(accounts, accs, signers, instruction_data)} :
        /\ accounts' = IF out.result = "Ok" THEN out.accounts ELSE accounts
        /\ request' = [accs |-> accs, signers |-> signers,
                       instruction_data |-> instruction_data]
        /\ result' = out.result
        /\ dirty' = {r \in Records : out.accounts[r] # accounts[r]}
        /\ placed' = IF out.result = "Ok" /\ instruction_data # <<>>
                        /\ instruction_data[1] = 1
                     THEN placed + 1 ELSE placed

\* ------------------------------------------------------------------ inputs

Str(n) == [i \in 1..n |-> 65]

\* A payload cut short by one byte.
Truncated(bytes) == SubSeq(bytes, 1, Len(bytes) - 1)

\* A request: the records passed, the records that signed, the payload.
Req(accs, signers, payload) == [accs |-> accs, signers |-> signers, payload |-> payload]

\* CreateMarket payloads: the creator is the participant or someone else,
\* the name and the description are at their limit or one byte under it, and
\* every payload carries a pool of 7 on party 1 with party 1 declared the
\* winner.
MarketPayload(c, n, d) ==
    EncBetState([creator |-> Key(c), name |-> Str(n), description |-> Str(d),
                 total_pool |-> U64Bytes(7), party1_pool |-> U64Bytes(7),
                 party2_pool |-> Zeros(U64Len),
                 outcome |-> [party1_result |-> TRUE, party2_result |-> FALSE]])

MarketPayloads ==
    {MarketPayload(c, n, d) : c \in {"U", "M"}, n \in {MinNameLen - 1, MinNameLen},
                              d \in {MinDescLen - 1, MinDescLen}}

ValidMarketPayload == MarketPayload("U", MinNameLen, MinDescLen)

\* CreateMarket requests: on the market record, signed by the participant or
\* by nobody, with every payload and with one that does not decode; and with
\* the valid payload on a record too small for the market, on a record below
\* its minimum balance, on a record the program does not own, and one record
\* short.
CreateMarketRequests ==
    {Req(<<"M", "U">>, s, p) :
       s \in {{"U"}, {}}, p \in MarketPayloads \cup {Truncated(ValidMarketPayload)}}
      \cup {Req(accs, {"U"}, ValidMarketPayload) :
              accs \in {<<"X", "U">>, <<"F1", "U">>, <<"U", "U">>, <<"M">>}}

\* PlaceWager payloads: a BettorDetails naming market record m or no record
\* at all (the all-zero key), on every combination of sides, and carrying an
\* amount of 9.
WagerPayload(a, p1, p2) ==
    EncBettor([bet_placer_address |-> Key("U"), value |-> U64Bytes(9),
               assoc_bet_address |-> a, party1 |-> p1, party2 |-> p2])

WagerPayloads(m) ==
    {WagerPayload(a, p1, p2) :
       a \in {Key(m), Zeros(PubkeyLen)}, p1 \in BOOLEAN, p2 \in BOOLEAN}

\* PlaceWager requests, signed by the participant: each of M and X as the
\* market record with the other as the wager record, funded from either
\* funding record or from the market record itself, with every payload; and,
\* with a payload backing party 1 of M, a payload that does not decode, an
\* unsigned request, a market record the program does not own, a wager record
\* below its minimum balance, a request one record short, and a request
\* funded from the wager record itself; and a wager on X funded from market
\* record M.
PlaceWagerRequests ==
    UNION {{Req(<<m, f, w, "U">>, {"U"}, p) :
              f \in {"F1", "F2", m}, w \in {"M", "X"} \ {m}, p \in WagerPayloads(m)} :
           m \in {"M", "X"}}
      \cup {Req(<<"M", "F1", "X", "U">>, {"U"},
                Truncated(WagerPayload(Key("M"), TRUE, FALSE))),
            Req(<<"M", "F1", "X", "U">>, {}, WagerPayload(Key("M"), TRUE, FALSE)),
            Req(<<"U", "F1", "X", "U">>, {"U"}, WagerPayload(Key("M"), TRUE, FALSE)),
            Req(<<"M", "F2", "F1", "U">>, {"U"}, WagerPayload(Key("M"), TRUE, FALSE)),
            Req(<<"M", "F1", "X">>, {"U"}, WagerPayload(Key("M"), TRUE, FALSE)),
            Req(<<"M", "X", "X", "U">>, {"U"}, WagerPayload(Key("M"), TRUE, FALSE)),
            Req(<<"X", "M", "X", "U">>, {"U"}, WagerPayload(Key("X"), TRUE, FALSE))}

\* SettleOutcome requests: on either record as the market, with each pair of
\* result flags, signed by the participant; and one unsigned.
SettleOutcomeRequests ==
    {Req(<<m, "U">>, {"U"}, <<BoolByte(p1), BoolByte(p2)>>) :
       m \in {"M", "X"}, p1 \in BOOLEAN, p2 \in BOOLEAN}
      \cup {Req(<<"M", "U">>, {}, <<1, 0>>)}

\* ClaimWinnings requests: a market record, a wager record, the payout
\* record and the claimant.
ClaimWinningsRequests ==
    {Req(<<m, w, "F1", "U">>, {"U"}, <<>>) : m \in {"M", "X"}, w \in {"M", "X"}}

\* ----------------------------------------------------------------- actions

CreateMarket ==
    \E r \in CreateMarketRequests : Invoke(r.accs, r.signers, <<0>> \o r.payload)

PlaceWager ==
    /\ placed < MaxWagers
    /\ \E r \in PlaceWagerRequests : Invoke(r.accs, r.signers, <<1>> \o r.payload)

SettleOutcome ==
    \E r \in SettleOutcomeRequests : Invoke(r.accs, r.signers, <<2>> \o r.payload)

ClaimWinnings ==
    \E r \in ClaimWinningsRequests : Invoke(r.accs, r.signers, <<3>> \o r.payload)

\* A request the router itself rejects: no bytes, or an opcode it does not
\* know, alone or in front of a payload.
BadRequests == {<<>>, <<4>>, <<9>>, <<255>> \o ValidMarketPayload}

BadRequest ==
    \E instruction_data \in BadRequests : Invoke(<<"M", "U">>, {"U"}, instruction_data)

Next ==
    \/ CreateMarket
    \/ PlaceWager
    \/ SettleOutcome
    \/ ClaimWinnings
    \/ BadRequest

Spec == Init /\ [][Next]_vars

\* ------------------------------------------------------- reading the state

\* The opcode and the payload of the last request (-1: no bytes at all).
Opcode == IF request.instruction_data = <<>> THEN -1 ELSE request.instruction_data[1]
Payload == SubSeq(request.instruction_data, 2, Len(request.instruction_data))

\* The i-th record of the last request.
Arg(i) == request.accs[i]

\* The last request reached the named handler and it returned Ok.
Succeeded(op) == result = "Ok" /\ Opcode = op

\* The MarketState a record holds, when its buffer decodes as one.
HoldsMarket(st, r) == DecBetState(st[r].data).ok
MarketIn(st, r) == DecBetState(st[r].data).v

\* Uninitialized: the buffer as provisioned.  Open: a market with no result
\* flag set.  Settled: a market with exactly one result flag set.
Uninitialized(st, r) == st[r].data = Zeros(Len(st[r].data))
Open(st, r) ==
    /\ HoldsMarket(st, r)
    /\ ~MarketIn(st, r).outcome.party1_result
    /\ ~MarketIn(st, r).outcome.party2_result
Settled(st, r) ==
    /\ HoldsMarket(st, r)
    /\ MarketIn(st, r).outcome.party1_result # MarketIn(st, r).outcome.party2_result

\* The WagerRecord a record holds: the leading BettorLen bytes of a buffer
\* that long, when they decode as one.
HoldsWager(st, r) ==
    /\ Len(st[r].data) >= BettorLen
    /\ DecBettor(SubSeq(st[r].data, 1, BettorLen)).ok
WagerIn(st, r) == DecBettor(SubSeq(st[r].data, 1, BettorLen)).v

\* The u64 sum of the amounts of the wagers held in the records of set rs.
RECURSIVE SumAmounts(_, _)
SumAmounts(st, rs) ==
    IF rs = {} THEN Zeros(U64Len)
    ELSE LET r == CHOOSE x \in rs : TRUE
         IN  AddU64(WagerIn(st, r).value, SumAmounts(st, rs \ {r}))

\* The records holding a wager that names market record m.
WagersOn(st, m) ==
    {r \in Records : HoldsWager(st, r) /\ WagerIn(st, r).assoc_bet_address = Key(m)}

\* ------------------------------------------------------------------ claims

\* C1: in every state the host holds (so after any sequence of successful
\* handler calls), every market's total_pool equals party1_pool + party2_pool.
C1_TotalIsSumOfSides ==
    \A m \in Records :
        HoldsMarket(accounts, m) =>
            MarketIn(accounts, m).total_pool
              = AddU64(MarketIn(accounts, m).party1_pool, MarketIn(accounts, m).party2_pool)

\* C2: every market's total_pool is the sum of the amounts of the stored
\* wagers that name it, and each side's pool is that sum over the wagers
\* backing the side.
C2_PoolsAreSumsOfWagers ==
    \A m \in Records :
        HoldsMarket(accounts, m) =>
            /\ MarketIn(accounts, m).total_pool = SumAmounts(accounts, WagersOn(accounts, m))
            /\ MarketIn(accounts, m).party1_pool
                 = SumAmounts(accounts, {r \in WagersOn(accounts, m) : WagerIn(accounts, r).party1})
            /\ MarketIn(accounts, m).party2_pool
                 = SumAmounts(accounts, {r \in WagersOn(accounts, m) : WagerIn(accounts, r).party2})

\* C3: a successful PlaceWager adds to the market record's balance exactly
\* what the funding record held before the call and leaves the funding
\* record at 0, whatever records were passed.
C3_FundsConserved ==
    [][(result' = "Ok" /\ request'.instruction_data # <<>>
          /\ request'.instruction_data[1] = 1)
        => /\ accounts'[request'.accs[1]].lamports - accounts[request'.accs[1]].lamports
                = accounts[request'.accs[2]].lamports
           /\ accounts'[request'.accs[2]].lamports = 0
           /\ accounts'[request'.accs[1]].lamports + accounts'[request'.accs[2]].lamports
                = accounts[request'.accs[1]].lamports + accounts[request'.accs[2]].lamports
      ]_vars

\* C3 witness: a PlaceWager has succeeded that moved the first funding
\* record's lamports into market record M.
C3_Witness ==
    /\ Succeeded(1)
    /\ Arg(1) = "M" /\ Arg(2) = "F1"
    /\ accounts["F1"].lamports = 0
    /\ accounts["M"].lamports
         = minimum_balance(DataLen("M")) + BettorLen - BetStateFixedLen

\* C4: a PlaceWager whose payload flags both sides or neither is rejected.
C4_AmbiguousSideRejected ==
    (Opcode = 1 /\ DecBettor(Payload).ok
       /\ DecBettor(Payload).v.party1 = DecBettor(Payload).v.party2)
      => result # "Ok"

\* C5: a handler call that returns an error has left every record as it
\* found it, before any rollback by the host.
C5_ErrorLeavesRecordsUntouched ==
    result \notin {"None", "Ok"} => dirty = {}

\* The two result flags as stored: the last two bytes of a market's buffer.
StoredOutcome(st, r) == SubSeq(st[r].data, Len(st[r].data) - 1, Len(st[r].data))

\* C6: once a record holds a Settled market, no handler call changes the
\* outcome stored in it.
C6_SettledOutcomeImmutable ==
    [][\A m \in Records :
         Settled(accounts, m) => StoredOutcome(accounts', m) = StoredOutcome(accounts, m)
      ]_vars

\* C7: a CreateMarket that succeeds was made on an Uninitialized record.
C7_CreateOnlyOnUninitialized ==
    [][(result' = "Ok" /\ request'.instruction_data # <<>>
          /\ request'.instruction_data[1] = 0)
        => Uninitialized(accounts, request'.accs[1])
      ]_vars

\* C8: a SettleOutcome that succeeds on an Open market, signed by the
\* market's creator and flagging exactly one side, stores that outcome and
\* leaves the market Settled.
C8_SettleWritesOutcome ==
    [][(/\ result' = "Ok"
        /\ request'.instruction_data # <<>>
        /\ request'.instruction_data[1] = 2
        /\ request'.instruction_data[2] # request'.instruction_data[3]
        /\ request'.accs[2] \in request'.signers
        /\ Open(accounts, request'.accs[1])
        /\ MarketIn(accounts, request'.accs[1]).creator = Key(request'.accs[2]))
        => /\ Settled(accounts', request'.accs[1])
           /\ StoredOutcome(accounts', request'.accs[1])
                = <<request'.instruction_data[2], request'.instruction_data[3]>>
      ]_vars

\* C9: a ClaimWinnings that succeeds was made on a Settled market.
C9_ClaimOnlyWhenSettled ==
    Succeeded(3) => Settled(accounts, Arg(1))

\* The value of a little-endian u64 below 2^31.
U64Val(b) == b[1] + 256 * b[2] + 65536 * b[3] + 16777216 * b[4]
SmallU64(b) == b[4] < 128 /\ \A i \in 5..U64Len : b[i] = 0

\* Wager record w backs the side that won market m, and its amount and the
\* market's pools are within the range U64Val reads.
WinningWager(st, m, w) ==
    /\ Settled(st, m)
    /\ HoldsWager(st, w)
    /\ WagerIn(st, w).assoc_bet_address = Key(m)
    /\ WagerIn(st, w).party1 = MarketIn(st, m).outcome.party1_result
    /\ WagerIn(st, w).party2 = MarketIn(st, m).outcome.party2_result
    /\ SmallU64(WagerIn(st, w).value)
    /\ SmallU64(MarketIn(st, m).total_pool)
    /\ SmallU64(MarketIn(st, m).party1_pool)
    /\ SmallU64(MarketIn(st, m).party2_pool)

WinningPool(st, m) ==
    IF MarketIn(st, m).outcome.party1_result
    THEN U64Val(MarketIn(st, m).party1_pool)
    ELSE U64Val(MarketIn(st, m).party2_pool)

\* amount * (total_pool / winning_pool)
Share(st, m, w) ==
    U64Val(WagerIn(st, w).value)
      * (U64Val(MarketIn(st, m).total_pool) \div WinningPool(st, m))

\* C10: a ClaimWinnings that succeeds for the bettor's wager on the winning
\* side of a Settled market moves the wager's share from the market record
\* to the payout record.
C10_ClaimPaysShare ==
    [][(/\ result' = "Ok"
        /\ request'.instruction_data # <<>>
        /\ request'.instruction_data[1] = 3
        /\ request'.accs[4] \in request'.signers
        /\ WinningWager(accounts, request'.accs[1], request'.accs[2])
        /\ WagerIn(accounts, request'.accs[2]).bet_placer_address = Key(request'.accs[4])
        /\ WinningPool(accounts, request'.accs[1]) > 0)
        => /\ accounts'[request'.accs[1]].lamports
                = accounts[request'.accs[1]].lamports
                    - Share(accounts, request'.accs[1], request'.accs[2])
           /\ accounts'[request'.accs[3]].lamports
                = accounts[request'.accs[3]].lamports
                    + Share(accounts, request'.accs[1], request'.accs[2])
      ]_vars

\* C11: the balance of a record holding a market goes down only in a
\* ClaimWinnings that succeeds on that record while its market is Settled;
\* no CreateMarket, PlaceWager or SettleOutcome lowers it.
C11_MarketBalanceOnlyLeavesByClaim ==
    [][\A m \in Records :
         (HoldsMarket(accounts, m) /\ accounts'[m].lamports < accounts[m].lamports)
           => /\ result' = "Ok"
              /\ request'.instruction_data # <<>>
              /\ request'.instruction_data[1] = 3
              /\ request'.accs[1] = m
              /\ Settled(accounts, m)
      ]_vars

\* C12: a PlaceWager that succeeds was made on a record holding an Open
\* market, not on an Uninitialized record nor on a Settled market.
C12_WagerOnlyOnOpenMarket ==
    [][(result' = "Ok" /\ request'.instruction_data # <<>>
          /\ request'.instruction_data[1] = 1)
        => /\ Open(accounts, request'.accs[1])
           /\ ~Uninitialized(accounts, request'.accs[1])
           /\ ~Settled(accounts, request'.accs[1])
      ]_vars

\* C13: a CreateMarket that succeeds was made on a program-owned record at
\* or above its minimum balance, signed by the creator record, with a payload
\* naming that record as creator, a name of at least 5 bytes and a
\* description of at least 10; it leaves stored at the front of the market
\* record a MarketState with the payload's creator, name and description, all
\* three pools 0 and both result flags false.
C13_CreateStoresFreshMarket ==
    [][(result' = "Ok" /\ request'.instruction_data # <<>>
          /\ request'.instruction_data[1] = 0)
        => LET m == request'.accs[1]
               p == DecBetState(SubSeq(request'.instruction_data, 2,
                                       Len(request'.instruction_data)))
               stored == DecBetState(SubSeq(accounts'[m].data, 1,
                                            Len(request'.instruction_data) - 1))
           IN  /\ Owner(m) = ProgramId
               /\ request'.accs[2] \in request'.signers
               /\ p.ok
               /\ p.v.creator = Key(request'.accs[2])
               /\ Len(p.v.name) >= MinNameLen
               /\ Len(p.v.description) >= MinDescLen
               /\ accounts[m].lamports >= minimum_balance(Len(accounts[m].data))
               /\ stored.ok
               /\ stored.v.creator = p.v.creator
               /\ stored.v.name = p.v.name
               /\ stored.v.description = p.v.description
               /\ stored.v.total_pool = Zeros(U64Len)
               /\ stored.v.party1_pool = Zeros(U64Len)
               /\ stored.v.party2_pool = Zeros(U64Len)
               /\ stored.v.outcome = NewOutcome
      ]_vars

\* C13 witness: a CreateMarket has succeeded whose payload carried a pool
\* and an outcome, on a record that held a market with money in its pools.
C13_Witness ==
    /\ Succeeded(0)
    /\ DecBetState(Payload).v.total_pool # Zeros(U64Len)
    /\ DecBetState(Payload).v.outcome.party1_result
    /\ placed > 0
    /\ MarketIn(accounts, Arg(1)).total_pool = Zeros(U64Len)

\* The last request was a CreateMarket whose payload decodes with a name
\* under the limit.
ShortNameRequest ==
    /\ Opcode = 0
    /\ DecBetState(Payload).ok
    /\ Len(DecBetState(Payload).v.name) < MinNameLen

\* The last request, a CreateMarket, passes every check initialize_bet makes
\* before it looks at the name: two records, the first owned by the program,
\* the second a signer and the payload's creator.
ReachesNameCheck ==
    /\ Len(request.accs) >= 2
    /\ Owner(Arg(1)) = ProgramId
    /\ Arg(2) \in request.signers
    /\ DecBetState(Payload).v.creator = Key(Arg(2))

\* C14 as stated: every CreateMarket whose payload has a name under 5 bytes
\* fails with the error of the name check and leaves the records unchanged.
C14_ShortNameAlwaysNameError ==
    ShortNameRequest => (result = "InvalidInstructionData" /\ dirty = {})

\* C14, amended: every CreateMarket whose payload has a name under 5 bytes
\* fails and leaves the records unchanged; it fails with the error of the
\* name check when it passes the checks made before that one.
C14_ShortNameRejected ==
    ShortNameRequest =>
        /\ result # "Ok"
        /\ dirty = {}
        /\ ReachesNameCheck => result = "InvalidInstructionData"

\* C14 witness: a CreateMarket with a short name, signed by its creator, has
\* been rejected by the name check on a record that holds a market.
C14_Witness ==
    /\ ShortNameRequest
    /\ ReachesNameCheck
    /\ result = "InvalidInstructionData"
    /\ HoldsMarket(accounts, Arg(1))

\* What process_instruction returns for a request in the current records.
Tag(accs, signers, instruction_data) ==
    process_instruction(accounts, accs, signers, instruction_data).result

\* The error of a CreateMarket on a record the program does not own.
NotOwnedTag == Tag(<<"U", "U">>, {"U"}, <<0>> \o ValidMarketPayload)

\* C15: a CreateMarket on a program-owned record whose creator record has
\* not signed fails, with an error other than the one for a record the
\* program does not own, and writes nothing.
C15_UnsignedCreateOwnError ==
    (Opcode = 0 /\ Len(request.accs) >= 2 /\ Owner(Arg(1)) = ProgramId
       /\ Arg(2) \notin request.signers)
      => /\ result # "Ok"
         /\ result # NotOwnedTag
         /\ dirty = {}

\* Why process_instruction rejects a request in the current records: the
\* first check of the router or of initialize_bet that the request fails,
\* under the name the error taxonomy gives it ("None" when it passes them
\* all, "Other" for causes the taxonomy does not tell apart here).
Cause(accs, signers, instruction_data) ==
    IF instruction_data = <<>> \/ instruction_data[1] \notin 0..3 THEN "UnknownOpcode"
    ELSE IF instruction_data[1] # 0 \/ Len(accs) < 2 THEN "Other"
    ELSE LET dec == DecBetState(SubSeq(instruction_data, 2, Len(instruction_data)))
         IN  IF Owner(accs[1]) # ProgramId THEN "Authorization"
             ELSE IF accs[2] \notin signers THEN "Authorization"
             ELSE IF ~dec.ok THEN "Other"
             ELSE IF dec.v.creator # Key(accs[2]) THEN "IdentityMismatch"
             ELSE IF Len(dec.v.name) < MinNameLen THEN "FieldTooShort"
             ELSE IF Len(dec.v.description) < MinDescLen THEN "FieldTooShort"
             ELSE IF accounts[accs[1]].lamports < minimum_balance(Len(accounts[accs[1]].data))
                  THEN "InsufficientBalance"
             ELSE "None"

\* The requests whose errors are compared: every CreateMarket request and
\* the requests the router rejects.
Probes ==
    {[accs |-> r.accs, signers |-> r.signers, instruction_data |-> <<0>> \o r.payload] :
       r \in CreateMarketRequests}
      \cup {[accs |-> <<"M", "U">>, signers |-> {"U"}, instruction_data |-> d] :
               d \in {<<>>, <<9>>}}

\* C16: when a CreateMarket is rejected for a creator mismatch or for a name
\* or description that is too short, the error returned is the one returned
\* for every request rejected for the same cause, and is returned for no
\* request rejected for another of the causes: creator mismatch, field too
\* short, authorization, insufficient balance, unknown opcode.
C16_TagIdentifiesCause ==
    LET c == Cause(request.accs, request.signers, request.instruction_data)
    IN  (result # "None" /\ c \in {"IdentityMismatch", "FieldTooShort"})
          => \A q \in Probes :
                LET cq == Cause(q.accs, q.signers, q.instruction_data)
                IN  cq \in {"IdentityMismatch", "FieldTooShort", "Authorization",
                            "InsufficientBalance", "UnknownOpcode"}
                      => ((Tag(q.accs, q.signers, q.instruction_data) = result)
                            <=> (cq = c))

\* C18: no handler call ends in an abort; a payload or a market buffer that
\* does not decode is answered with a returned error.
C18_NoAbort ==
    result # "Panic"

\* What a handler call must have left in the ghost variables: the handler's
\* return value, and as dirty the records it left changed.
Ran(out) ==
    /\ result' = out.result
    /\ dirty' = {r \in Records : out.accounts[r] # accounts[r]}

\* C17: a request with no bytes, or with a first byte outside 0..3, is
\* answered with an error and no record is changed; a first byte of 0, 1, 2
\* or 3 runs initialize_bet, place_wager, settle_bet_outcome or
\* claim_winnings on the bytes after the first.
C17_RouterDispatch ==
    [][LET d == request'.instruction_data
           rest == SubSeq(d, 2, Len(d))
           a == request'.accs
           s == request'.signers
       IN  IF d = <<>> \/ d[1] \notin 0..3
           THEN /\ result' = "InvalidInstructionData"
                /\ dirty' = {}
                /\ accounts' = accounts
           ELSE \E out \in {CASE d[1] = 0 -> initialize_bet(accounts, a, s, rest)
                               [] d[1] = 1 -> place_wager(accounts, a, s, rest)
                               [] d[1] = 2 -> settle_bet_outcome(accounts, a, s, rest)
                               [] d[1] = 3 -> claim_winnings(accounts, a, s, rest)} :
                    Ran(out)
      ]_vars

\* C17 witness: a request with an opcode the router does not know, carrying
\* a valid CreateMarket payload and signed, has been rejected while market
\* record M held a market.
C17_Witness ==
    /\ Opcode = 255
    /\ Payload = ValidMarketPayload
    /\ result = "InvalidInstructionData"
    /\ dirty = {}
    /\ HoldsMarket(accounts, "M")

\* C19: after a PlaceWager that succeeds, the wager record holds a
\* WagerRecord naming the market record of the call, placed by the record
\* that signed, for the amount the funding record held before the call.
C19_WagerRecordMatchesCall ==
    [][(result' = "Ok" /\ request'.instruction_data # <<>>
          /\ request'.instruction_data[1] = 1)
        => /\ HoldsWager(accounts', request'.accs[3])
           /\ WagerIn(accounts', request'.accs[3]).assoc_bet_address
                = Key(request'.accs[1])
           /\ WagerIn(accounts', request'.accs[3]).bet_placer_address
                = Key(request'.accs[4])
           /\ WagerIn(accounts', request'.accs[3]).value
                = U64Bytes(accounts[request'.accs[2]].lamports)
      ]_vars

\* C20: a PlaceWager that succeeds leaves the market with the creator, name,
\* description and outcome it had, changes no record but the market record,
\* the funding record and the wager record, and changes no other record that
\* held a market.
C20_WagerFrame ==
    [][(result' = "Ok" /\ request'.instruction_data # <<>>
          /\ request'.instruction_data[1] = 1)
        => LET m == request'.accs[1]
           IN  /\ HoldsMarket(accounts', m)
               /\ MarketIn(accounts', m).creator = MarketIn(accounts, m).creator
               /\ MarketIn(accounts', m).name = MarketIn(accounts, m).name
               /\ MarketIn(accounts', m).description = MarketIn(accounts, m).description
               /\ MarketIn(accounts', m).outcome = MarketIn(accounts, m).outcome
               /\ \A r \in Records \ {m, request'.accs[2], request'.accs[3]} :
                     accounts'[r] = accounts[r]
               /\ \A r \in Records \ {m} :
                     HoldsMarket(accounts, r) => accounts'[r] = accounts[r]
      ]_vars

====
